---------------------------- MODULE Spec2Model ----------------------------
(***************************************************************************)
(* A model of steam-shortcut-rs (src/src/lib.rs): the binary decoder       *)
(* parser::parse_object / read_next_string over a byte source, the         *)
(* construction Parser::new, the projection Shortcut::from(&LooseMap) and  *)
(* the iterator Parser::next.                                              *)
(*                                                                         *)
(* The byte source is a finite sequence of items: a byte 0..255 or IoErr,  *)
(* a read that failed.  A text is the sequence of its UTF-8 bytes.  A      *)
(* LooseMap is a function from keys (texts) to tagged values               *)
(* [t |-> "obj" | "str" | "int", v |-> ...], the three concrete types the  *)
(* decoder boxes as dyn Any.  One step of the decoder is one iteration of  *)
(* parse_object's loop; the recursion is the stack of frames.              *)
(***************************************************************************)
EXTENDS Integers, Sequences, FiniteSets, TLC

VARIABLES
    input,       \* the items of the byte source, in reading order
    pos,         \* the cursor: how many items have been consumed
    stack,       \* parse_object's activation records, innermost last
    pc,          \* "start" | "decode" | "decoded" | "ready" | "failed" | "panicked"
    tree,        \* the map the outermost parse_object returned
    stderr,      \* the lines eprintln! wrote
    filename,    \* Parser.filename
    parsed_map,  \* Parser.parsed_map
    idx,         \* Parser.idx
    calls,       \* how many times next was called
    result,      \* what the last call of next returned: "-" | "Some" | "None" | "Panic"
    yielded,     \* the Shortcuts next returned, in order
    last         \* history: the loop iteration just executed (op, cursor and depth before it)

vars == <<input, pos, stack, pc, tree, stderr, filename, parsed_map, idx,
          calls, result, yielded, last>>

---------------------------------------------------------------------------
(* Program constants *)

TYPE_OBJECT == 0
TYPE_STRING == 1
TYPE_INT == 2
TERMINATOR_SHORTCUT == 8
TERMINATOR_STRING == 0

\* An item of the byte source that is Some(Err(_)) rather than Some(Ok(byte)).
IoErr == -1

\* The number of items `handle.take(4)` lets through.
IntBytes == 4

\* SystemTime::UNIX_EPOCH, in seconds.
UNIX_EPOCH == 0

FileName == "shortcuts.vdf"

KeyShortcuts == <<115,104,111,114,116,99,117,116,115>>
KeyAppName == <<65,112,112,78,97,109,101>>
KeyExe == <<101,120,101>>
KeyStartDir == <<83,116,97,114,116,68,105,114>>
KeyIsHidden == <<73,115,72,105,100,100,101,110>>
KeyIcon == <<105,99,111,110>>
KeyLaunchOptions == <<76,97,117,110,99,104,79,112,116,105,111,110,115>>
KeyAllowDesktopConfig == <<65,108,108,111,119,68,101,115,107,116,111,112,67,111,110,102,105,103>>
KeyOpenVR == <<79,112,101,110,86,82>>
KeyShortcutPath == <<83,104,111,114,116,99,117,116,80,97,116,104>>
KeyLastPlayTime == <<76,97,115,116,80,108,97,121,84,105,109,101>>

---------------------------------------------------------------------------
(* Bounds of the model *)

\* A small stream is made of at most MaxPieces pieces.
MaxPieces == 3
\* A shortcuts file has entries under indices 0..MaxIdx at most.
MaxIdx == 3
\* next is called at most MaxCalls times on one Parser.
MaxCalls == 6

---------------------------------------------------------------------------
(* Arithmetic on u32 *)

RECURSIVE BitOr(_, _)
BitOr(a, b) ==
    IF a = 0 THEN b
    ELSE IF b = 0 THEN a
    ELSE (IF a % 2 = 1 \/ b % 2 = 1 THEN 1 ELSE 0) + 2 * BitOr(a \div 2, b \div 2)

\* (x as u32) << i.  x is a byte and i is at most 3 where the decoder shifts
\* (IntLoop), so the result is below 2^11 and the width of u32 never cuts it.
Shl(x, i) == x * 2^i

\* format!("{}", n): the decimal digits of n, in ASCII
RECURSIVE Decimal(_)
Decimal(n) ==
    IF n < 10 THEN <<48 + n>>
    ELSE Append(Decimal(n \div 10), 48 + (n % 10))

---------------------------------------------------------------------------
(* String::from_utf8: whether a byte sequence is well-formed UTF-8 *)

IsCont(b) == b >= 128 /\ b <= 191

RECURSIVE IsUtf8(_)
IsUtf8(s) ==
    IF s = <<>> THEN TRUE
    ELSE LET b == s[1]
             n == Len(s)
             Rest(k) == IsUtf8(SubSeq(s, k + 1, n))
         IN  IF b < 128 THEN Rest(1)
             ELSE IF b >= 194 /\ b <= 223
                  THEN n >= 2 /\ IsCont(s[2]) /\ Rest(2)
             ELSE IF b = 224
                  THEN n >= 3 /\ s[2] >= 160 /\ s[2] <= 191 /\ IsCont(s[3]) /\ Rest(3)
             ELSE IF (b >= 225 /\ b <= 236) \/ b = 238 \/ b = 239
                  THEN n >= 3 /\ IsCont(s[2]) /\ IsCont(s[3]) /\ Rest(3)
             ELSE IF b = 237
                  THEN n >= 3 /\ s[2] >= 128 /\ s[2] <= 159 /\ IsCont(s[3]) /\ Rest(3)
             ELSE IF b = 240
                  THEN n >= 4 /\ s[2] >= 144 /\ s[2] <= 191 /\ IsCont(s[3])
                       /\ IsCont(s[4]) /\ Rest(4)
             ELSE IF b >= 241 /\ b <= 243
                  THEN n >= 4 /\ IsCont(s[2]) /\ IsCont(s[3]) /\ IsCont(s[4]) /\ Rest(4)
             ELSE IF b = 244
                  THEN n >= 4 /\ s[2] >= 128 /\ s[2] <= 143 /\ IsCont(s[3])
                       /\ IsCont(s[4]) /\ Rest(4)
             ELSE FALSE

---------------------------------------------------------------------------
(* The byte source: handle.next() at cursor p *)

AtEnd(p) == p >= Len(input)

\* The item handle.next() returns at cursor p (p < Len(input)).
Item(p) == input[p + 1]

---------------------------------------------------------------------------
(* read_next_string *)

\* take_while: the cursor of the first item at or after p that is not
\* Ok(c) with c # TERMINATOR_STRING, or the end of the source.
RECURSIVE StringStop(_)
StringStop(p) ==
    IF AtEnd(p) THEN p
    ELSE IF Item(p) = IoErr \/ Item(p) = TERMINATOR_STRING THEN p
    ELSE StringStop(p + 1)

\* A variant of read_next_string whose take_while leaves the item that
\* stopped it in the source (a peeking reader).
read_next_string_peek(p) ==
    LET e == StringStop(p)
        bytes == SubSeq(input, p + 1, e)
    IN  [bytes |-> bytes,
         next |-> e,
         utf8 |-> IsUtf8(bytes)]

\* What read_next_string does at cursor p: the bytes collected, the cursor
\* after it (take_while consumes the item that stopped it), and whether
\* String::from_utf8 accepts the bytes (.expect panics when it does not).
read_next_string(p) ==
    LET e == StringStop(p)
        bytes == SubSeq(input, p + 1, e)
    IN  [bytes |-> bytes,
         next |-> IF AtEnd(e) THEN e ELSE e + 1,
         utf8 |-> IsUtf8(bytes)]

---------------------------------------------------------------------------
(* The TYPE_INT arm: for x in handle.take(4) { target |= (x? as u32) << i; i += 1 } *)

\* n: how many items take still lets through; i: the loop counter; 
\* err: x? returned the read failure out of parse_object.
RECURSIVE IntLoop(_, _, _, _)
IntLoop(p, n, i, target) ==
    IF n = 0 \/ AtEnd(p) THEN [err |-> FALSE, target |-> target, next |-> p, count |-> i]
    ELSE IF Item(p) = IoErr THEN [err |-> TRUE, target |-> target, next |-> p + 1, count |-> i]
    ELSE IntLoop(p + 1, n - 1, i + 1, BitOr(target, Shl(Item(p), i)))

ReadInt(p) == IntLoop(p, IntBytes, 0, 0)

---------------------------------------------------------------------------
(* LooseMap = HashMap<String, Box<dyn Any>> *)

EmptyMap == <<>>

ObjVal(m) == [t |-> "obj", v |-> m]
StrVal(s) == [t |-> "str", v |-> s]
IntVal(n) == [t |-> "int", v |-> n]

\* A variant of Insert that keeps the value a key already has (entry().or_insert).
InsertIfAbsent(m, k, val) ==
    [x \in (DOMAIN m) \cup {k} |-> IF x \in DOMAIN m THEN m[x] ELSE val]

\* HashMap::insert
Insert(m, k, val) == [x \in (DOMAIN m) \cup {k} |-> IF x = k THEN val ELSE m[x]]

\* HashMap::remove / HashMap::get: Some(_) or None
Has(m, k) == k \in DOMAIN m

---------------------------------------------------------------------------
(* eprintln! *)

LogObject == [m |-> "Type: object", s |-> <<>>, n |-> 0]
LogString(val) == [m |-> "Type: string", s |-> val, n |-> 0]
LogInt(target) == [m |-> "Type: int", s |-> <<>>, n |-> target]
LogUnrecognized(header) == [m |-> "Unrecognized type", s |-> <<>>, n |-> header]

---------------------------------------------------------------------------
(* The byte sources the model reads.  Two families: small streams put      *)
(* together from pieces (single items, among them a failed read and a byte *)
(* that is not UTF-8, and whole entries), and shortcuts files in the       *)
(* layout Parser::new expects, root -> "shortcuts" -> "0", "1", ...        *)

RECURSIVE Concat(_)
Concat(ss) == IF ss = <<>> THEN <<>> ELSE Head(ss) \o Concat(Tail(ss))

\* The wire form of one entry: tag, key, TERMINATOR_STRING, value.
WireStr(k, v) == <<TYPE_STRING>> \o k \o <<TERMINATOR_STRING>> \o v \o <<TERMINATOR_STRING>>
WireInt(k, q) == <<TYPE_INT>> \o k \o <<TERMINATOR_STRING>> \o q
WireOpen(k) == <<TYPE_OBJECT>> \o k \o <<TERMINATOR_STRING>>
WireObj(k, body) == WireOpen(k) \o body \o <<TERMINATOR_SHORTCUT>>

Pieces ==
    { <<0>>, <<1>>, <<2>>, <<5>>, <<8>>, <<IoErr>>, <<255>> }
    \cup { WireStr(<<97>>, <<120>>), WireStr(<<97>>, <<>>), WireStr(<<98>>, <<121>>) }
    \cup { WireInt(<<97>>, <<1, 0, 0, 0>>), WireInt(<<98>>, <<0, 1, 0, 0>>),
           WireInt(<<110>>, <<2, 0, 1, 1>>) }
    \cup { WireOpen(<<111>>) }
    \cup { <<5, 107, 0>>, <<5, 107, 0, 1, 0, 0, 0>> }

RECURSIVE PieceStreams(_)
PieceStreams(n) ==
    IF n = 0 THEN { <<>> }
    ELSE LET S == PieceStreams(n - 1)
         IN  S \cup { s \o p : s \in S, p \in Pieces }

\* The flavours of a well-formed shortcut node: its six texts and the four
\* raw bytes of each of its four integers.
FlavourTexts ==
    << [app |-> <<67,97,108,99>>, exe |-> <<99,97,108,99,46,101,120,101>>, dir |-> <<47>>,
        icon |-> <<>>, opts |-> <<>>, path |-> <<>>],
       [app |-> <<195,169>>, exe |-> <<101>>, dir |-> <<>>,
        icon |-> <<105>>, opts |-> <<45,120>>, path |-> <<47,112>>],
       [app |-> <<>>, exe |-> <<>>, dir |-> <<47>>,
        icon |-> <<>>, opts |-> <<>>, path |-> <<>>] >>

FlavourInts ==
    << [hidden |-> <<0,0,0,0>>, allow |-> <<1,0,0,0>>, vr |-> <<2,0,0,0>>, time |-> <<1,0,0,0>>],
       [hidden |-> <<1,0,0,0>>, allow |-> <<2,0,0,0>>, vr |-> <<0,1,0,0>>, time |-> <<0,0,1,0>>],
       [hidden |-> <<1,1,0,0>>, allow |-> <<0,0,0,0>>, vr |-> <<1,0,0,0>>,
        time |-> <<255,255,255,255>>] >>

\* The ten required fields in wire form; field j is left out (mode "missing"),
\* written with the other value type (mode "wrong") or written as it should be.
FieldWire(j, f) ==
    LET t == FlavourTexts[f]
        q == FlavourInts[f]
    IN  CASE j = 1 -> WireStr(KeyAppName, t.app)
          [] j = 2 -> WireStr(KeyExe, t.exe)
          [] j = 3 -> WireStr(KeyStartDir, t.dir)
          [] j = 4 -> WireStr(KeyIcon, t.icon)
          [] j = 5 -> WireStr(KeyShortcutPath, t.path)
          [] j = 6 -> WireStr(KeyLaunchOptions, t.opts)
          [] j = 7 -> WireInt(KeyIsHidden, q.hidden)
          [] j = 8 -> WireInt(KeyAllowDesktopConfig, q.allow)
          [] j = 9 -> WireInt(KeyOpenVR, q.vr)
          [] j = 10 -> WireInt(KeyLastPlayTime, q.time)

FieldKey(j) ==
    << KeyAppName, KeyExe, KeyStartDir, KeyIcon, KeyShortcutPath, KeyLaunchOptions,
       KeyIsHidden, KeyAllowDesktopConfig, KeyOpenVR, KeyLastPlayTime >>[j]

FieldWrong(j) ==
    IF j <= 6 THEN WireInt(FieldKey(j), <<1, 0, 0, 0>>) ELSE WireStr(FieldKey(j), <<49>>)

\* Flavour 2 also carries what real files carry and the projection ignores:
\* an "id" integer and a "tags" object.  Flavour 3 carries a key "x" three
\* times: as a text, as an object and as an integer.
ExtraWire(f) ==
    IF f = 2 THEN WireInt(<<105,100>>, <<7, 0, 0, 0>>)
                  \o WireObj(<<116,97,103,115>>, WireStr(<<48>>, <<102>>))
    ELSE IF f = 3 THEN WireStr(<<120>>, <<49>>)
                       \o WireObj(<<120>>, WireStr(<<48>>, <<102>>))
                       \o WireInt(<<120>>, <<2, 0, 0, 0>>)
    ELSE <<>>

NodeBody(f, j, mode) ==
    Concat([x \in 1..10 |->
              IF x # j THEN FieldWire(x, f)
              ELSE IF mode = "missing" THEN <<>> ELSE FieldWrong(x)])
    \o ExtraWire(f)

NFlavours == Len(FlavourTexts)

FlavourAt(f, i) == ((f + i) % NFlavours) + 1

GoodEntry(i, f) == WireObj(Decimal(i), NodeBody(FlavourAt(f, i), 0, "ok"))

BadKinds ==
    { [mode |-> m, j |-> j] : m \in {"missing", "wrong"}, j \in 1..10 }
    \cup { [mode |-> "str", j |-> 0], [mode |-> "int", j |-> 0] }

BadEntry(i, b) ==
    CASE b.mode = "str" -> WireStr(Decimal(i), <<120>>)
      [] b.mode = "int" -> WireInt(Decimal(i), <<1, 0, 0, 0>>)
      [] OTHER -> WireObj(Decimal(i), NodeBody(1, b.j, b.mode))

ShortcutsFile(entries) ==
    WireObj(KeyShortcuts, entries) \o <<TERMINATOR_SHORTCUT>>

\* Files whose entries are all well-formed: any subset of the indices 0..MaxIdx.
GoodFiles ==
    { ShortcutsFile(Concat([i \in 1..(MaxIdx + 1) |->
                              IF (i - 1) \in present THEN GoodEntry(i - 1, f) ELSE <<>>])) :
        present \in SUBSET (0..MaxIdx), f \in 1..NFlavours }

\* Files with g well-formed entries, then a malformed one, then perhaps a
\* well-formed one.
BadFiles ==
    { ShortcutsFile(Concat([i \in 1..g |-> GoodEntry(i - 1, 1)])
                    \o BadEntry(g, b)
                    \o (IF after THEN GoodEntry(g + 1, 1) ELSE <<>>)) :
        g \in 0..(MaxIdx - 1), b \in BadKinds, after \in BOOLEAN }

\* Files whose root is not what Parser::new expects: "shortcuts" as a text
\* or an integer, written once or after or before an object of that key,
\* and a root without that key; each with and without the root's terminator.
RootBodies ==
    { WireStr(KeyShortcuts, <<120>>),
      WireInt(KeyShortcuts, <<1, 0, 0, 0>>),
      WireObj(KeyShortcuts, GoodEntry(0, 1)) \o WireStr(KeyShortcuts, <<120>>),
      WireInt(KeyShortcuts, <<1, 0, 0, 0>>) \o WireObj(KeyShortcuts, GoodEntry(0, 1)),
      WireObj(<<111>>, GoodEntry(0, 1)),
      WireStr(<<107>>, <<120>>) \o <<5, 107, 0>> \o WireObj(KeyShortcuts, GoodEntry(0, 2)) }

RootFiles ==
    { body \o end : body \in RootBodies, end \in { <<>>, <<TERMINATOR_SHORTCUT>> } }

Inputs == PieceStreams(MaxPieces) \cup GoodFiles \cup BadFiles \cup RootFiles

---------------------------------------------------------------------------
(* impl From<&LooseMap> for Shortcut *)

\* t.get(k).unwrap().downcast_ref::<String>().unwrap() does not panic
HasString(t, k) == Has(t, k) /\ t[k].t = "str"
\* t.get(k).unwrap().downcast_ref::<u32>().unwrap() does not panic
HasU32(t, k) == Has(t, k) /\ t[k].t = "int"

\* A variant of Flag that takes every nonzero value for true.
FlagNonZero(v) == v # 0

\* `== 1`: how the projection reads a flag out of a u32
Flag(v) == v = 1

StringFields ==
    { KeyAppName, KeyExe, KeyStartDir, KeyIcon, KeyLaunchOptions, KeyShortcutPath }
U32Fields == { KeyIsHidden, KeyAllowDesktopConfig, KeyOpenVR, KeyLastPlayTime }

\* A variant of ShortcutFrom that takes the field of Shortcut::default() for
\* a child that is missing or has the other type.
TextOr(t, k, d) == IF Has(t, k) /\ t[k].t = "str" THEN t[k].v ELSE d
U32Or(t, k, d) == IF Has(t, k) /\ t[k].t = "int" THEN t[k].v ELSE d
ShortcutFromOrDefault(t) ==
    [panic |-> FALSE,
     sc |-> [id |-> 0,
             app_name |-> TextOr(t, KeyAppName, <<68,101,102,97,117,108,116>>),
             exe |-> TextOr(t, KeyExe, <<99,97,108,99,46,101,120,101>>),
             start_dir |-> TextOr(t, KeyStartDir, <<47>>),
             is_hidden |-> (U32Or(t, KeyIsHidden, 0) = 1),
             icon |-> TextOr(t, KeyIcon, <<>>),
             launch_options |-> TextOr(t, KeyLaunchOptions, <<>>),
             allow_desktop_config |-> (U32Or(t, KeyAllowDesktopConfig, 1) = 1),
             open_vr |-> (U32Or(t, KeyOpenVR, 0) = 1),
             shortcut_path |-> TextOr(t, KeyShortcutPath, <<>>),
             last_play_time |-> UNIX_EPOCH + U32Or(t, KeyLastPlayTime, 0),
             tags |-> <<>>]]

\* Shortcut::from(t): it panics in one of its unwraps, or builds the record.
ShortcutFrom(t) ==
    IF \/ \E k \in StringFields : ~HasString(t, k)
       \/ \E k \in U32Fields : ~HasU32(t, k)
    THEN [panic |-> TRUE]
    ELSE [panic |-> FALSE,
          sc |-> [id |-> 0,
                  app_name |-> t[KeyAppName].v,
                  exe |-> t[KeyExe].v,
                  start_dir |-> t[KeyStartDir].v,
                  is_hidden |-> Flag(t[KeyIsHidden].v),
                  icon |-> t[KeyIcon].v,
                  launch_options |-> t[KeyLaunchOptions].v,
                  allow_desktop_config |-> Flag(t[KeyAllowDesktopConfig].v),
                  open_vr |-> Flag(t[KeyOpenVR].v),
                  shortcut_path |-> t[KeyShortcutPath].v,
                  last_play_time |-> UNIX_EPOCH + t[KeyLastPlayTime].v,
                  tags |-> <<>>]]

---------------------------------------------------------------------------
(* The state before Parser::new(filename) is called *)

NoIteration == [op |-> "-", from |-> 0, depth |-> 0]

Init ==
    /\ input \in Inputs
    /\ pos = 0
    /\ stack = <<>>
    /\ pc = "start"
    /\ tree = EmptyMap
    /\ stderr = <<>>
    /\ filename = ""
    /\ parsed_map = EmptyMap
    /\ idx = 0
    /\ calls = 0
    /\ result = "-"
    /\ yielded = <<>>
    /\ last = NoIteration

parserVars == <<filename, parsed_map, idx, calls, result, yielded>>

---------------------------------------------------------------------------
(* Parser::new, first line: std::fs::File::open(filename)?.bytes() *)

Open ==
    /\ pc = "start"
    /\ \E opened \in BOOLEAN :
          IF opened
          THEN /\ pc' = "decode"
               /\ stack' = << [map |-> EmptyMap, property |-> <<>>] >>
          ELSE /\ pc' = "failed"
               /\ stack' = stack
    /\ UNCHANGED <<input, pos, tree, stderr, last>>
    /\ UNCHANGED parserVars

---------------------------------------------------------------------------
(* parse_object: one step is one iteration of `while let Some(Ok(header))` *)

Depth == Len(stack)
Top == stack[Len(stack)]

Iteration(op) == [op |-> op, from |-> pos, depth |-> Depth]

\* return Ok(m): to Parser::new from the outermost call, and otherwise to the
\* TYPE_OBJECT arm of the caller, which inserts it under its property.
ParseReturn(m) ==
    IF Depth = 1
    THEN /\ pc' = "decoded"
         /\ tree' = m
         /\ stack' = <<>>
    ELSE LET d == Depth - 1
             parent == stack[d]
         IN  /\ pc' = "decode"
             /\ tree' = tree
             /\ stack' = [SubSeq(stack, 1, d) EXCEPT
                            ![d].map = Insert(parent.map, Top.property, ObjVal(m))]

\* .expect("invalid UTF-8 in shortcut definition") panics
StringPanic(p) ==
    /\ pc' = "panicked"
    /\ pos' = p
    /\ stack' = <<>>
    /\ UNCHANGED <<tree, stderr>>

\* A variant of Terminator that reads the key before it looks at the header.
TerminatorAfterKey ==
    /\ pc = "decode"
    /\ ~AtEnd(pos)
    /\ Item(pos) = TERMINATOR_SHORTCUT
    /\ pos' = read_next_string(pos + 1).next
    /\ ParseReturn(Top.map)
    /\ last' = Iteration("terminator")
    /\ UNCHANGED <<input, stderr>>
    /\ UNCHANGED parserVars

\* header == TERMINATOR_SHORTCUT
Terminator ==
    /\ pc = "decode"
    /\ ~AtEnd(pos)
    /\ Item(pos) = TERMINATOR_SHORTCUT
    /\ pos' = pos + 1
    /\ ParseReturn(Top.map)
    /\ last' = Iteration("terminator")
    /\ UNCHANGED <<input, stderr>>
    /\ UNCHANGED parserVars

\* A variant of LoopExit that treats the end of the source in tag position
\* as an error of the whole decode.
LoopExitStrict ==
    /\ pc = "decode"
    /\ IF AtEnd(pos) THEN TRUE ELSE Item(pos) = IoErr
    /\ pos' = IF AtEnd(pos) THEN pos ELSE pos + 1
    /\ pc' = "failed"
    /\ stack' = <<>>
    /\ tree' = tree
    /\ last' = Iteration(IF AtEnd(pos) THEN "end" ELSE "error")
    /\ UNCHANGED <<input, stderr>>
    /\ UNCHANGED parserVars

\* handle.next() is None or Some(Err(_)): the loop ends, Ok(loose_map)
LoopExit ==
    /\ pc = "decode"
    /\ IF AtEnd(pos) THEN TRUE ELSE Item(pos) = IoErr
    /\ pos' = IF AtEnd(pos) THEN pos ELSE pos + 1
    /\ ParseReturn(Top.map)
    /\ last' = Iteration(IF AtEnd(pos) THEN "end" ELSE "error")
    /\ UNCHANGED <<input, stderr>>
    /\ UNCHANGED parserVars

ObjectEntry ==
    /\ pc = "decode"
    /\ ~AtEnd(pos)
    /\ Item(pos) = TYPE_OBJECT
    /\ LET property == read_next_string(pos + 1)
       IN  IF ~property.utf8 THEN StringPanic(property.next)
           ELSE /\ pos' = property.next
                /\ stack' = Append(stack, [map |-> EmptyMap, property |-> property.bytes])
                /\ stderr' = Append(stderr, LogObject)
                /\ UNCHANGED <<pc, tree>>
    /\ last' = Iteration("object")
    /\ UNCHANGED input
    /\ UNCHANGED parserVars

\* A variant of StringEntry that seeks back to the entry's tag after it has
\* stored the text.
StringEntryRewinds ==
    /\ pc = "decode"
    /\ ~AtEnd(pos)
    /\ Item(pos) = TYPE_STRING
    /\ LET property == read_next_string(pos + 1)
           val == read_next_string(property.next)
       IN  IF ~property.utf8 THEN StringPanic(property.next)
           ELSE IF ~val.utf8 THEN StringPanic(val.next)
           ELSE /\ pos' = pos
                /\ stack' = [stack EXCEPT
                               ![Depth].map = Insert(Top.map, property.bytes, StrVal(val.bytes))]
                /\ stderr' = Append(stderr, LogString(val.bytes))
                /\ UNCHANGED <<pc, tree>>
    /\ last' = Iteration("string")
    /\ UNCHANGED input
    /\ UNCHANGED parserVars

StringEntry ==
    /\ pc = "decode"
    /\ ~AtEnd(pos)
    /\ Item(pos) = TYPE_STRING
    /\ LET property == read_next_string(pos + 1)
           val == read_next_string(property.next)
       IN  IF ~property.utf8 THEN StringPanic(property.next)
           ELSE IF ~val.utf8 THEN StringPanic(val.next)
           ELSE /\ pos' = val.next
                /\ stack' = [stack EXCEPT
                               ![Depth].map = Insert(Top.map, property.bytes, StrVal(val.bytes))]
                /\ stderr' = Append(stderr, LogString(val.bytes))
                /\ UNCHANGED <<pc, tree>>
    /\ last' = Iteration("string")
    /\ UNCHANGED input
    /\ UNCHANGED parserVars

IntEntry ==
    /\ pc = "decode"
    /\ ~AtEnd(pos)
    /\ Item(pos) = TYPE_INT
    /\ LET property == read_next_string(pos + 1)
           int == ReadInt(property.next)
       IN  IF ~property.utf8 THEN StringPanic(property.next)
           ELSE IF int.err
           THEN \* x? : every parse_object on the stack returns the Err, and so does new
                /\ pc' = "failed"
                /\ pos' = int.next
                /\ stack' = <<>>
                /\ UNCHANGED <<tree, stderr>>
           ELSE /\ pos' = int.next
                /\ stack' = [stack EXCEPT
                               ![Depth].map = Insert(Top.map, property.bytes, IntVal(int.target))]
                /\ stderr' = Append(stderr, LogInt(int.target))
                /\ UNCHANGED <<pc, tree>>
    /\ last' = Iteration("int")
    /\ UNCHANGED input
    /\ UNCHANGED parserVars

\* A variant of Unrecognized that skips a cstring value after the key, as the
\* TYPE_STRING arm reads one.
UnrecognizedSkipsValue ==
    /\ pc = "decode"
    /\ ~AtEnd(pos)
    /\ Item(pos) \notin {TYPE_OBJECT, TYPE_STRING, TYPE_INT, TERMINATOR_SHORTCUT, IoErr}
    /\ LET property == read_next_string(pos + 1)
       IN  IF ~property.utf8 THEN StringPanic(property.next)
           ELSE /\ pos' = read_next_string(property.next).next
                /\ stderr' = Append(stderr, LogUnrecognized(Item(pos)))
                /\ UNCHANGED <<pc, tree, stack>>
    /\ last' = Iteration("unrecognized")
    /\ UNCHANGED input
    /\ UNCHANGED parserVars

Unrecognized ==
    /\ pc = "decode"
    /\ ~AtEnd(pos)
    /\ Item(pos) \notin {TYPE_OBJECT, TYPE_STRING, TYPE_INT, TERMINATOR_SHORTCUT, IoErr}
    /\ LET property == read_next_string(pos + 1)
       IN  IF ~property.utf8 THEN StringPanic(property.next)
           ELSE /\ pos' = property.next
                /\ stderr' = Append(stderr, LogUnrecognized(Item(pos)))
                /\ UNCHANGED <<pc, tree, stack>>
    /\ last' = Iteration("unrecognized")
    /\ UNCHANGED input
    /\ UNCHANGED parserVars

---------------------------------------------------------------------------
(* Parser::new after parse_object returned Ok(obj) *)

\* A variant of Construct that takes an empty sub-tree when the root has no
\* object under "shortcuts" (unwrap_or_default).
ConstructLenient ==
    /\ pc = "decoded"
    /\ pc' = "ready"
    /\ filename' = FileName
    /\ parsed_map' = IF Has(tree, KeyShortcuts) /\ tree[KeyShortcuts].t = "obj"
                     THEN tree[KeyShortcuts].v ELSE EmptyMap
    /\ idx' = 0
    /\ UNCHANGED <<input, pos, stack, tree, stderr, calls, result, yielded, last>>

Construct ==
    /\ pc = "decoded"
    /\ IF Has(tree, KeyShortcuts) /\ tree[KeyShortcuts].t = "obj"
       THEN /\ pc' = "ready"
            /\ filename' = FileName
            /\ parsed_map' = tree[KeyShortcuts].v
            /\ idx' = 0
       ELSE \* obj.remove("shortcuts").unwrap() or s.downcast::<LooseMap>().unwrap()
            /\ pc' = "panicked"
            /\ UNCHANGED <<filename, parsed_map, idx>>
    /\ UNCHANGED <<input, pos, stack, tree, stderr, calls, result, yielded, last>>

---------------------------------------------------------------------------
(* impl Iterator for Parser: next *)

\* A variant of IndexKey that counts the entries from one.
IndexKeyFromOne(i) == Decimal(i + 1)

\* &format!("{}", self.idx): the key next looks up
IndexKey(i) == Decimal(i)

\* A variant of NextNone that rewinds the iterator when it runs out.
NextNoneRewinds ==
    /\ result' = "None"
    /\ idx' = 0
    /\ UNCHANGED <<pc, yielded>>

\* A variant of NextNone that moves the index past the key it did not find.
NextNoneAdvances ==
    /\ result' = "None"
    /\ idx' = idx + 1
    /\ UNCHANGED <<pc, yielded>>

\* The lookup found nothing: next returns None.
NextNone ==
    /\ result' = "None"
    /\ UNCHANGED <<pc, idx, yielded>>

\* A variant of AssignId that keeps the id the projection produced.
AssignIdKeep(sc, i) == sc

\* sc.id = self.idx
AssignId(sc, i) == [sc EXCEPT !.id = i]

ParserNext ==
    /\ pc = "ready"
    /\ calls < MaxCalls
    /\ calls' = calls + 1
    /\ LET key == IndexKey(idx)
       IN  IF Has(parsed_map, key)
           THEN LET any == parsed_map[key]
                    from == IF any.t = "obj" THEN ShortcutFrom(any.v) ELSE [panic |-> TRUE]
                IN  IF from.panic
                    THEN /\ pc' = "panicked"
                         /\ result' = "Panic"
                         /\ UNCHANGED <<idx, yielded>>
                    ELSE /\ yielded' = Append(yielded, AssignId(from.sc, idx))
                         /\ idx' = idx + 1
                         /\ result' = "Some"
                         /\ pc' = pc
           ELSE NextNone
    /\ UNCHANGED <<input, pos, stack, tree, stderr, filename, parsed_map, last>>

---------------------------------------------------------------------------

Next ==
    \/ Open
    \/ Terminator
    \/ LoopExit
    \/ ObjectEntry
    \/ StringEntry
    \/ IntEntry
    \/ Unrecognized
    \/ Construct
    \/ ParserNext

Spec == Init /\ [][Next]_vars

---------------------------------------------------------------------------
(* Properties of the decoder *)

\* The key of the iteration just executed, as read_next_string read it.
LastKey == read_next_string(last.from + 1)

\* The key of the iteration just executed ended with its TERMINATOR_STRING.
LastKeyTerminated ==
    /\ LastKey.next >= 1
    /\ LastKey.next <= Len(input)
    /\ input[LastKey.next] = TERMINATOR_STRING
    /\ LastKey.next = StringStop(last.from + 1) + 1

\* The iteration just executed was a TYPE_INT entry whose key was followed
\* by four bytes, all read without failure, and it stored its value.
FullInt ==
    /\ last.op = "int"
    /\ pc = "decode"
    /\ LastKeyTerminated
    /\ LastKey.next + IntBytes <= Len(input)
    /\ \A j \in 1..IntBytes : input[LastKey.next + j] # IoErr

\* C1: the value stored for a TYPE_INT entry followed by the bytes b0, b1,
\* b2, b3 is b0 + 256*b1 + 65536*b2 + 16777216*b3: byte k of the stream is
\* byte k of the value.
C1_LittleEndian ==
    FullInt =>
        LET b == [j \in 1..IntBytes |-> input[LastKey.next + j]]
            stored == Top.map[LastKey.bytes]
        IN  /\ stored.t = "int"
            /\ stored.v % 256 = b[1]
            /\ (stored.v \div 256) % 256 = b[2]
            /\ (stored.v \div 65536) % 256 = b[3]
            /\ stored.v \div 16777216 = b[4]

\* The iteration just executed was a TYPE_INT entry whose key was followed
\* by fewer than four bytes and then the end of the source.
TruncatedInt ==
    /\ last.op = "int"
    /\ LastKey.utf8
    /\ LastKeyTerminated
    /\ Len(input) - LastKey.next < IntBytes
    /\ \A j \in (LastKey.next + 1)..Len(input) : input[j] # IoErr

\* C2: an integer cut short by the end of the source aborts the decode with
\* an error; nothing is stored and no tree is returned.
C2_TruncationFatal == TruncatedInt => pc = "failed"

\* Two valid entries, and an entry with the unrecognized tag 5 written as tag
\* and key alone or as tag, key and four value bytes.
ValidNeighbours ==
    { [wire |-> WireStr(<<97>>, <<120>>), key |-> <<97>>, val |-> StrVal(<<120>>)],
      [wire |-> WireStr(<<98>>, <<121>>), key |-> <<98>>, val |-> StrVal(<<121>>)],
      [wire |-> WireInt(<<97>>, <<1, 0, 0, 0>>), key |-> <<97>>, val |-> IntVal(1)] }
UnrecognizedEntries == { <<5, 107, 0>>, <<5, 107, 0, 1, 0, 0, 0>> }

\* The decode is over: Parser::new got past parse_object, or returned its error.
DecodeOver == last.op # "-" /\ pc \notin {"start", "decode"}

\* C3: an entry with an unrecognized tag between two valid entries is
\* dropped: the decode returns the map of exactly the two neighbours.
C3_UnrecognizedSkipped ==
    \A e1 \in ValidNeighbours, e2 \in ValidNeighbours, u \in UnrecognizedEntries :
        (e1.key # e2.key /\ input = e1.wire \o u \o e2.wire /\ DecodeOver)
            => tree = (e1.key :> e1.val) @@ (e2.key :> e2.val)

\* C4: on the byte 8 in tag position parse_object consumes that byte alone
\* and returns the map of its level: to Parser::new from the outermost call,
\* and otherwise into the caller's map under the pending key, the caller
\* being next at a tag position, on the byte after the terminator.
C4_TerminatorReturns ==
    [][ (pc = "decode" /\ ~AtEnd(pos) /\ Item(pos) = TERMINATOR_SHORTCUT) =>
          /\ pos' = pos + 1
          /\ IF Len(stack) = 1
             THEN /\ pc' = "decoded"
                  /\ tree' = stack[1].map
             ELSE LET d == Len(stack) - 1
                      child == stack[d + 1]
                  IN  /\ pc' = "decode"
                      /\ Len(stack') = d
                      /\ \A x \in 1..(d - 1) : stack'[x] = stack[x]
                      /\ stack'[d].property = stack[d].property
                      /\ DOMAIN stack'[d].map = (DOMAIN stack[d].map) \cup {child.property}
                      /\ \A k \in DOMAIN stack'[d].map :
                            stack'[d].map[k] =
                                IF k = child.property THEN ObjVal(child.map)
                                ELSE stack[d].map[k]
      ]_vars

\* A nested object has just returned on its terminator, its map is in the
\* caller's map, and the caller has a byte to read next.
C4_Witness ==
    /\ last.op = "terminator"
    /\ last.depth > 1
    /\ pc = "decode"
    /\ Len(stack) = last.depth - 1
    /\ pos = last.from + 1
    /\ ~AtEnd(pos)
    /\ \E k \in DOMAIN Top.map : Top.map[k].t = "obj" /\ Top.map[k].v # EmptyMap

---------------------------------------------------------------------------
(* Properties of the iterator *)

\* The least index whose decimal form is no key of m.
RECURSIVE LeastMissingFrom(_, _)
LeastMissingFrom(m, i) ==
    IF Decimal(i) \in DOMAIN m THEN LeastMissingFrom(m, i + 1) ELSE i
LeastMissing(m) == LeastMissingFrom(m, 0)

\* An entry of the shortcuts sub-tree that is no object, or lacks one of the
\* ten required children, or holds one with the other value type.
Malformed(any) ==
    IF any.t # "obj" THEN TRUE
    ELSE \/ \E k \in StringFields : k \notin DOMAIN any.v \/ any.v[k].t # "str"
         \/ \E k \in U32Fields : k \notin DOMAIN any.v \/ any.v[k].t # "int"

\* The iteration has stopped: next returned None, or failed.
IterationStopped == result = "None" \/ result = "Panic"

\* C5 as stated: whatever the entries "0".."k-1" hold, the iteration yields
\* exactly k Shortcuts before it stops, k the least missing index.
C5_AsStated == IterationStopped => Len(yielded) = LeastMissing(parsed_map)

\* C5, amended: when the entries "0".."k-1" are all well-formed shortcut
\* nodes, calls of next yield exactly k Shortcuts, the i-th the projection
\* of entry i with id i, and every later call returns None; no entry under
\* a key beyond k is projected.
C5_IndexGap ==
    (pc = "ready" \/ result # "-") =>
        LET k == LeastMissing(parsed_map)
        IN  (\A i \in 0..(k - 1) : ~Malformed(parsed_map[Decimal(i)])) =>
               /\ result # "Panic"
               /\ Len(yielded) = IF calls < k THEN calls ELSE k
               /\ (calls > k) <=> (result = "None")
               /\ \A i \in 1..Len(yielded) :
                     /\ yielded[i].id = i - 1
                     /\ [yielded[i] EXCEPT !.id = 0]
                            = ShortcutFrom(parsed_map[Decimal(i - 1)].v).sc

\* The sub-tree has the keys "0", "1" and "3" but not "2"; two Shortcuts were
\* yielded and next has returned None.
C5_Witness ==
    /\ result = "None"
    /\ Len(yielded) = 2
    /\ ~Has(parsed_map, Decimal(2))
    /\ Has(parsed_map, Decimal(3))

\* C6: a read failure anywhere in the decode makes Parser::new return the
\* IO error.
C6_ReadFailureFatal ==
    (\E j \in 1..pos : input[j] = IoErr) => pc = "failed"

\* C7: next on a malformed entry fails; it returns neither a Shortcut nor
\* None, and what was yielded before stays as it was.
C7_MalformedEntryFails ==
    [][ (/\ pc = "ready"
         /\ Has(parsed_map, Decimal(idx))
         /\ Malformed(parsed_map[Decimal(idx)])) =>
            /\ result' = "Panic"
            /\ pc' = "panicked"
            /\ yielded' = yielded
            /\ idx' = idx
      ]_vars

\* next has failed on a malformed entry after it yielded a Shortcut.
C7_Witness ==
    /\ result = "Panic"
    /\ Len(yielded) >= 1
    /\ Has(parsed_map, Decimal(idx))
    /\ Malformed(parsed_map[Decimal(idx)])

\* C8: an entry whose key the level's map already holds replaces the value
\* of that key and changes nothing else: a text entry, an integer entry, and
\* an object when it returns into its caller's map.
C8_LastWriteWins ==
    [][ /\ (pc = "decode" /\ pc' = "decode" /\ ~AtEnd(pos)
            /\ Item(pos) \in {TYPE_STRING, TYPE_INT}
            /\ read_next_string(pos + 1).bytes \in DOMAIN Top.map) =>
               LET k == read_next_string(pos + 1)
                   val == IF Item(pos) = TYPE_STRING
                          THEN StrVal(read_next_string(k.next).bytes)
                          ELSE IntVal(ReadInt(k.next).target)
               IN  /\ Len(stack') = Len(stack)
                   /\ stack'[Depth].map = [Top.map EXCEPT ![k.bytes] = val]
        /\ (pc = "decode" /\ Depth > 1
            /\ (IF AtEnd(pos) THEN TRUE ELSE Item(pos) \in {TERMINATOR_SHORTCUT, IoErr})
            /\ Top.property \in DOMAIN stack[Depth - 1].map) =>
               stack'[Depth - 1].map =
                   [stack[Depth - 1].map EXCEPT ![Top.property] = ObjVal(Top.map)]
      ]_vars

\* One level held the key "a" three times, as a text, as an integer and as
\* a text again, and the map returned holds the last of them alone.
C8_Witness ==
    /\ input = WireStr(<<97>>, <<120>>) \o WireInt(<<97>>, <<1, 0, 0, 0>>)
                   \o WireStr(<<97>>, <<>>)
    /\ pc = "decoded"
    /\ tree = (<<97>> :> StrVal(<<>>))

\* The integer stored under key k in the node the i-th Shortcut was read from.
StoredU32(i, k) == parsed_map[Decimal(i - 1)].v[k].v

\* C9: a boolean field of a Shortcut is true exactly when the integer stored
\* under its key is 1.
C9_BooleanCoercion ==
    \A i \in 1..Len(yielded) :
        /\ yielded[i].is_hidden <=> (StoredU32(i, KeyIsHidden) = 1)
        /\ yielded[i].allow_desktop_config <=> (StoredU32(i, KeyAllowDesktopConfig) = 1)
        /\ yielded[i].open_vr <=> (StoredU32(i, KeyOpenVR) = 1)

\* Shortcuts were yielded from the stored values 1 (true), 0, 2 and 3 (false).
C9_Witness ==
    /\ \E i \in 1..Len(yielded) : StoredU32(i, KeyIsHidden) = 1 /\ yielded[i].is_hidden
    /\ \E i \in 1..Len(yielded) : StoredU32(i, KeyIsHidden) = 0 /\ ~yielded[i].is_hidden
    /\ \E i \in 1..Len(yielded) : StoredU32(i, KeyOpenVR) = 2 /\ ~yielded[i].open_vr
    /\ \E i \in 1..Len(yielded) : StoredU32(i, KeyIsHidden) = 3 /\ ~yielded[i].is_hidden

\* C10: after next has returned None, every call of next returns None and
\* yields nothing.
C10_NoneIsFinal ==
    [][ result = "None" => (result' = "None" /\ yielded' = yielded /\ idx' = idx) ]_vars

\* next has returned None twice in a row, after it yielded a Shortcut.
C10_Witness ==
    /\ result = "None"
    /\ Len(yielded) >= 1
    /\ calls >= Len(yielded) + 2

---------------------------------------------------------------------------
(* Properties of Parser::new *)

\* C11: there is a Parser only when the root tree holds an object under
\* "shortcuts", and its sub-tree is that object; a root without the key, or
\* with a text or an integer under it, leaves no Parser and next is never
\* called.
C11_NoParserWithoutShortcuts ==
    /\ (pc = "ready" \/ result # "-") =>
          /\ Has(tree, KeyShortcuts)
          /\ tree[KeyShortcuts].t = "obj"
          /\ parsed_map = tree[KeyShortcuts].v
    /\ (/\ DecodeOver
        /\ pc # "decoded"
        /\ IF Has(tree, KeyShortcuts) THEN tree[KeyShortcuts].t # "obj" ELSE TRUE) =>
          /\ pc \in {"failed", "panicked"}
          /\ filename = ""
          /\ parsed_map = EmptyMap
          /\ calls = 0

\* Parser::new has failed on a root tree that holds "shortcuts" as a text.
C11_Witness ==
    /\ pc = "panicked"
    /\ last.op \in {"end", "terminator"}
    /\ Has(tree, KeyShortcuts)
    /\ tree[KeyShortcuts].t = "str"

\* C12: every fatal condition (invalid UTF-8 in a key or a text, a root
\* without an object under "shortcuts", a malformed shortcut entry) ends
\* Parser::new or next with an error value: no run ends in a panic.
C12_FatalIsErrorValue == pc # "panicked" /\ result # "Panic"

---------------------------------------------------------------------------
(* Properties of Parser::next's ids *)

KeyId == <<105, 100>>

\* C13: the id of the n-th Shortcut yielded (counting from zero) is n,
\* whatever the node holds, a child named "id" included.
C13_IdIsPosition ==
    \A n \in 1..Len(yielded) : yielded[n].id = n - 1

\* Two Shortcuts were yielded and the node of one of them holds an integer
\* child named "id" whose value is not the node's position.
C13_Witness ==
    /\ Len(yielded) >= 2
    /\ \E n \in 1..Len(yielded) :
          LET node == parsed_map[IndexKey(n - 1)].v
          IN  /\ Has(node, KeyId)
              /\ node[KeyId].t = "int"
              /\ node[KeyId].v # n - 1
              /\ node[KeyId].v # 0

---------------------------------------------------------------------------
(* Properties of the end of the source *)

\* C14: when the source is exhausted in tag position of the outermost
\* parse_object, the decode succeeds and returns the entries decoded so far,
\* which is the tree a terminator in that position returns.
C14_OutermostEndSucceeds ==
    [][(/\ pc = "decode"
        /\ Depth = 1
        /\ IF AtEnd(pos) THEN TRUE ELSE Item(pos) = TERMINATOR_SHORTCUT)
       => (/\ pc' = "decoded"
           /\ tree' = stack[1].map
           /\ stderr' = stderr)]_vars

\* The outermost call has returned a non-empty tree at the end of a source
\* that holds no terminator for it.
C14_Witness ==
    /\ pc = "decoded"
    /\ last.op = "end"
    /\ last.depth = 1
    /\ tree # EmptyMap
    /\ pos = Len(input)

\* C15: when the source is exhausted inside a nested object, before that
\* object's terminator, the decode flags it: it fails or reports the
\* truncation, so that the outcome differs from that of the same bytes with
\* the missing terminators.
C15_NestedEndFlagged ==
    [][(pc = "decode" /\ Depth > 1 /\ AtEnd(pos))
       => (pc' \in {"failed", "panicked"} \/ stderr' # stderr)]_vars

---------------------------------------------------------------------------
(* The pipeline from the bytes of a file to the Shortcuts yielded *)

\* v is the unsigned integer whose four little-endian bytes are b.
IsLittleEndian(v, b) ==
    /\ v % 256 = b[1]
    /\ (v \div 256) % 256 = b[2]
    /\ (v \div 65536) % 256 = b[3]
    /\ v \div 16777216 = b[4]

\* The file root -> "shortcuts" -> "0".."n-1" of well-formed nodes.
WellFormedFile(n, f) == ShortcutsFile(Concat([i \in 1..n |-> GoodEntry(i - 1, f)]))

\* sc is the Shortcut the statement expects for the node of flavour fl at index i.
Projects(sc, i, fl) ==
    LET t == FlavourTexts[fl]
        q == FlavourInts[fl]
    IN  /\ sc.id = i
        /\ sc.app_name = t.app
        /\ sc.exe = t.exe
        /\ sc.start_dir = t.dir
        /\ sc.icon = t.icon
        /\ sc.launch_options = t.opts
        /\ sc.shortcut_path = t.path
        /\ sc.is_hidden <=> (q.hidden = <<1, 0, 0, 0>>)
        /\ sc.allow_desktop_config <=> (q.allow = <<1, 0, 0, 0>>)
        /\ sc.open_vr <=> (q.vr = <<1, 0, 0, 0>>)
        /\ sc.last_play_time >= UNIX_EPOCH
        /\ IsLittleEndian(sc.last_play_time - UNIX_EPOCH, q.time)
        /\ sc.tags = <<>>

\* C16: a well-formed file of n nodes yields n Shortcuts; the i-th has id i,
\* the six texts as encoded, each boolean true exactly when its integer is
\* encoded as 1, last_play_time the epoch plus the little-endian 32-bit
\* seconds, and no tags.
C16_EndToEnd ==
    \A n \in 0..(MaxIdx + 1), f \in 1..NFlavours :
        input = WellFormedFile(n, f) =>
            /\ pc # "panicked"
            /\ \A i \in 1..Len(yielded) : Projects(yielded[i], i - 1, FlavourAt(f, i - 1))
            /\ result = "None" => Len(yielded) = n

---------------------------------------------------------------------------
(* Properties of read_next_string *)

\* A 0x00 lies at or after cursor p and every read before it succeeds.
Terminated(p) ==
    \E q \in p..(Len(input) - 1) :
        /\ input[q + 1] = TERMINATOR_STRING
        /\ \A r \in p..(q - 1) : input[r + 1] \notin {TERMINATOR_STRING, IoErr}

\* The cursor of the first 0x00 at or after cursor p.
FirstZero(p) ==
    CHOOSE q \in p..(Len(input) - 1) :
        /\ input[q + 1] = TERMINATOR_STRING
        /\ \A r \in p..(q - 1) : input[r + 1] # TERMINATOR_STRING

\* The bytes from cursor p up to the first 0x00, the 0x00 left out.
UpToZero(p) == SubSeq(input, p + 1, FirstZero(p))

\* C17: a read of a key or of a text value returns exactly the bytes before
\* the first 0x00 at or after the cursor and leaves the cursor on the byte
\* that follows that 0x00: the key of every entry is those bytes, the value
\* of a text entry is read from the byte after the key's 0x00 up to the next
\* 0x00, and what follows (the next tag, the integer's bytes) starts right
\* after the 0x00.
C17_ReadNextString ==
    [][(/\ pc = "decode"
        /\ ~AtEnd(pos)
        /\ Item(pos) \notin {TERMINATOR_SHORTCUT, IoErr}
        /\ Terminated(pos + 1))
       => LET key == UpToZero(pos + 1)
              after == FirstZero(pos + 1) + 1
          IN  /\ ~IsUtf8(key) => (pc' = "panicked" /\ pos' = after)
              /\ (IsUtf8(key) /\ Item(pos) = TYPE_OBJECT) =>
                    /\ pos' = after
                    /\ stack'[Depth + 1].property = key
              /\ (IsUtf8(key) /\ Item(pos) = TYPE_STRING /\ Terminated(after)) =>
                    /\ pos' = FirstZero(after) + 1
                    /\ IF IsUtf8(UpToZero(after))
                       THEN /\ Has(stack'[Depth].map, key)
                            /\ stack'[Depth].map[key] = StrVal(UpToZero(after))
                       ELSE pc' = "panicked"
              /\ (IsUtf8(key) /\ Item(pos) = TYPE_INT) =>
                    /\ pos' >= after
                    /\ pos' <= after + IntBytes
                    /\ pc' = "decode" => Has(stack'[Depth].map, key)
              /\ (IsUtf8(key) /\ Item(pos) \notin {TYPE_OBJECT, TYPE_STRING, TYPE_INT}) =>
                    pos' = after]_vars

\* A text entry with a key and a value of one byte each was read, and bytes
\* follow it in the source.
C17_Witness ==
    /\ last.op = "string"
    /\ pc = "decode"
    /\ pos = 5
    /\ ~AtEnd(pos)
    /\ SubSeq(input, 1, 5) = WireStr(<<97>>, <<120>>)
    /\ Top.map = (<<97>> :> StrVal(<<120>>))

---------------------------------------------------------------------------
(* The frame of Parser::next *)

\* C18: a call of next leaves the shortcuts sub-tree and the filename as they
\* were; idx grows by exactly 1 when a Shortcut is returned and stays when
\* None is returned, so idx is always the number of Shortcuts yielded so far,
\* 0 at the start.
C18_NextFrame ==
    [][/\ idx = Len(yielded)
       /\ idx' = Len(yielded')
       /\ calls' # calls =>
            /\ parsed_map' = parsed_map
            /\ filename' = filename
            /\ result' = "Some" => (idx' = idx + 1 /\ Len(yielded') = Len(yielded) + 1)
            /\ result' = "None" => (idx' = idx /\ yielded' = yielded)
            /\ result' = "Panic" => (idx' = idx /\ yielded' = yielded)]_vars

\* next has returned two Shortcuts and then None, twice.
C18_Witness ==
    /\ result = "None"
    /\ calls = 4
    /\ idx = 2
    /\ Len(yielded) = 2
    /\ filename = FileName
    /\ Has(parsed_map, IndexKey(0))
    /\ Has(parsed_map, IndexKey(1))

---------------------------------------------------------------------------
(* Properties of the `_` arm *)

\* C19: on a tag outside {0, 1, 2, 8} the iteration consumes the tag and the
\* key through its 0x00 and nothing more, leaves the map of the level (and of
\* every other level) as it was, and the following iteration takes its tag
\* from the byte right after the key's 0x00.
C19_UnrecognizedConsumesKeyOnly ==
    [][/\ (/\ pc = "decode"
           /\ ~AtEnd(pos)
           /\ Item(pos) \notin {TYPE_OBJECT, TYPE_STRING, TYPE_INT,
                                TERMINATOR_SHORTCUT, IoErr}
           /\ Terminated(pos + 1)
           /\ IsUtf8(UpToZero(pos + 1)))
          => (/\ pos' = FirstZero(pos + 1) + 1
              /\ stack' = stack
              /\ tree' = tree
              /\ pc' = "decode"
              /\ last'.op = "unrecognized")
       /\ (pc = "decode" /\ last.op = "unrecognized")
          => (last'.from = pos /\ last'.depth = Depth)]_vars

\* An entry with tag 5 and the key of an earlier text entry was passed over:
\* the text is still in the map and the cursor is on the byte after the key.
C19_Witness ==
    /\ last.op = "unrecognized"
    /\ pc = "decode"
    /\ Depth = 1
    /\ pos = 8
    /\ ~AtEnd(pos)
    /\ SubSeq(input, 1, 8) = WireStr(<<107>>, <<120>>) \o <<5, 107, 0>>
    /\ Top.map = (<<107>> :> StrVal(<<120>>))

---------------------------------------------------------------------------
(* Termination of parse_object *)

\* How many object entries the decode has read (one diagnostic line each).
ObjectEntriesRead == Cardinality({ i \in 1..Len(stderr) : stderr[i] = LogObject })

\* What is left to do: the items not yet read, and the calls not yet returned.
Measure == 2 * (Len(input) - pos) + Depth

\* One step of the decode: the cursor does not move back, an iteration starts
\* reading where the last one stopped and consumes at least its tag, a nested
\* call is entered only by such an iteration, the measure falls, and the
\* nesting does not exceed the object entries read.
DecodeProgress ==
    /\ pos' >= pos
    /\ pos' <= Len(input)
    /\ Depth' - 1 <= ObjectEntriesRead'
    /\ pc = "decode" =>
          /\ last'.from = pos
          /\ ~AtEnd(pos) => pos' > pos
          /\ Depth' > Depth => (pos' > pos /\ Depth' = Depth + 1 /\ last'.op = "object")
          /\ pc' = "decode" => (Measure' < Measure /\ Measure' >= 0)
    /\ pc \notin {"start", "decode"} => (pos' = pos /\ Depth' = 0)

\* A nested call that has just been entered consumes something before it returns.
NestedCallConsumes ==
    (pc = "decode" /\ last.op = "object") => pos' > pos

\* C20 as stated: the decode ends (every step of it lowers a measure that is
\* never negative), the cursor only moves forward, every iteration and every
\* recursive call consumes at least one byte, and the nesting never exceeds
\* the object entries read.
C20_AsStated ==
    /\ [](pc = "decode" => (Measure >= 0 /\ Depth >= 1 /\ pos <= Len(input)))
    /\ [][DecodeProgress /\ NestedCallConsumes]_vars

\* C20, with a recursive call allowed to consume nothing when it is entered
\* at the end of the source: the decode ends on every input (every step of
\* it lowers a measure that is never negative), the cursor only moves
\* forward, every iteration consumes at least its tag byte and every
\* recursive call is entered by such an iteration, no byte is read twice, and
\* the nesting never exceeds the object entries read.
C20_Terminates ==
    /\ [](pc = "decode" => (Measure >= 0 /\ Depth >= 1 /\ pos <= Len(input)))
    /\ [][DecodeProgress
          /\ ((pc = "decode" /\ last.op = "object" /\ ~AtEnd(pos)) => pos' > pos)]_vars

\* The object entry "o" was read at the end of the source: the nested call
\* returned without consuming anything and the outermost call goes on.
C20_Witness ==
    /\ input = WireOpen(<<111>>)
    /\ pc = "decode"
    /\ last = [op |-> "end", from |-> 3, depth |-> 2]
    /\ pos = 3
    /\ Depth = 1
    /\ ObjectEntriesRead = 1

===========================================================================
